---- MODULE Spec2Model ----
(***************************************************************************)
(* Model of pgext's OpenTelemetryHook (src/otel.go): the go-pg query hook  *)
(* that turns every query into a tracing span.                             *)
(*                                                                         *)
(* Strings of the program (query text, function names) are sequences of    *)
(* one-byte strings, indexed from 1; Go's len() is Len.  A context is      *)
(* represented by the id of the span it carries (NoSpan when it carries    *)
(* none).  The tracing API is modelled as a recorder: every call the hook  *)
(* makes on a span is written into that span's record.                     *)
(***************************************************************************)
EXTENDS Integers, Sequences, FiniteSets, TLC

VARIABLES
    spans,   \* span id -> the span's record (tracing runtime)
    q        \* query number -> that query's hook calls: position, contexts, event, results

vars == <<spans, q>>

----------------------------------------------------------------------------
(* Bounds of the model *)

\* number of queries whose BeforeQuery/AfterQuery pairs may interleave
NumQueries == 2
\* most library frames above AfterQuery on a goroutine stack
MaxLibFrames == 17
\* most application frames above the library frames
MaxAppFrames == 2

(* Constants of the program *)

\* const queryLimit = 5000
queryLimit == 5000
\* the cap on the index of the first space when the span is named
nameLimit == 20
\* const depth = 16
depth == 16
\* runtime.Callers(3, ...)
skip == 3

----------------------------------------------------------------------------
(* Strings *)

Min(a, b) == IF a < b THEN a ELSE b

\* n copies of byte c
Rep(c, n) == [i \in 1..n |-> c]

\* s[:n] of Go, for 0 <= n <= len(s)
Prefix(s, n) == SubSeq(s, 1, n)

\* strings.IndexByte(s, c): the 0-based index of the first c, -1 when there is none
IndexByte(s, c) ==
    LET at == {i \in 1..Len(s) : s[i] = c}
    IN  IF at = {} THEN -1 ELSE (CHOOSE i \in at : \A j \in at : i <= j) - 1

\* strings.LastIndexByte(s, c)
LastIndexByte(s, c) ==
    LET at == {i \in 1..Len(s) : s[i] = c}
    IN  IF at = {} THEN -1 ELSE (CHOOSE i \in at : \A j \in at : i >= j) - 1

\* the white space strings.TrimSpace removes (the bytes of it the model's texts use)
WhiteSpace == {" ", "\t", "\n"}

\* strings.TrimSpace(s)
TrimSpace(s) ==
    LET keep == {i \in 1..Len(s) : s[i] \notin WhiteSpace}
    IN  IF keep = {} THEN <<>>
        ELSE SubSeq(s, CHOOSE i \in keep : \A j \in keep : i <= j,
                       CHOOSE i \in keep : \A j \in keep : i >= j)

\* strings.Contains(s, sub)
Contains(s, sub) ==
    \E i \in 0..(Len(s) - Len(sub)) : SubSeq(s, i + 1, i + Len(sub)) = sub

----------------------------------------------------------------------------
(* The tracing API (go.opentelemetry.io/otel/api/trace), as the hook uses it *)

\* the context that carries no span: trace.SpanFromContext gives the no-op span
NoSpan == 0
\* the spans the application started around its queries: one sampled out, one
\* recording.  They are the ambient spans of the contexts BeforeQuery receives.
AppNotRecording == 1
AppRecording == 2
AmbientContexts == {NoSpan, AppRecording, AppNotRecording}

Nil == "nil"
StatusUnset == "Unset"
NotFound == "NotFound"
Internal == "Internal"

\* a span as the tracer starts it; startedBy is "app" or "hook"
NewSpan(by, parent, name, recording) ==
    [startedBy |-> by, parent |-> parent, recording |-> recording,
     name |-> name, nameCalls |-> 0,
     status |-> StatusUnset, errors |-> <<>>,
     attributes |-> <<>>, attrCalls |-> 0,
     ends |-> 0]

\* trace.SpanFromContext(ctx)
SpanFromContext(ctx) == ctx

\* span.IsRecording(): the no-op span never records
IsRecording(span) == span # NoSpan /\ spans[span].recording

\* the id of the span tracer.Start allocates next
NextSpanID == Cardinality(DOMAIN spans) + 1

\* span.SetName(name)
SetName(sp, name) == [sp EXCEPT !.name = name, !.nameCalls = @ + 1]
\* span.SetStatus(code, "")
SetStatus(sp, code) == [sp EXCEPT !.status = code]
\* span.RecordError(ctx, err)
RecordError(sp, err) == [sp EXCEPT !.errors = Append(@, err)]
\* span.SetAttributes(attrs...)
SetAttributes(sp, kvs) == [sp EXCEPT !.attributes = @ \o kvs, !.attrCalls = @ + 1]
\* span.End()
End(sp) == [sp EXCEPT !.ends = @ + 1]

----------------------------------------------------------------------------
(* The query event (pg.QueryEvent) and the values it carries *)

\* orm.QueryOp values; the empty string is the zero value
InsertOp == <<"I", "N", "S", "E", "R", "T">>
SelectOp == <<"S", "E", "L", "E", "C", "T">>
UpdateOp == <<"U", "P", "D", "A", "T", "E">>
DeleteOp == <<"D", "E", "L", "E", "T", "E">>
EmptyOp == <<>>
QueryOps == {InsertOp, SelectOp, UpdateOp, DeleteOp, EmptyOp}

\* evt.Err
ErrNoRows == "pg: no rows in result set"
ErrMultiRows == "pg: multiple rows in result set"
ErrOther == "pg: connection refused"
EventErrs == {Nil, ErrNoRows, ErrMultiRows, ErrOther}

\* the errors evt.FormattedQuery() and evt.UnformattedQuery() may return
ErrFormat == "format error"
ErrUnformat == "unformat error"

\* what a call that renders the query returns: (b, err)
Rendered(b) == [b |-> b, err |-> Nil]
RenderFailed(err) == [b |-> <<>>, err |-> err]

\* evt.Result: nil, or a result with its two counts
NoResult == [present |-> FALSE, affected |-> 0, returned |-> 0]
Result(affected, returned) == [present |-> TRUE, affected |-> affected, returned |-> returned]
Results == {NoResult} \cup {Result(a, r) : a \in {0, 2}, r \in {0, 3}}

\* evt.DB: a *pg.DB with its options, or another orm.DB (a *pg.Tx, a *pg.Conn)
PgDB == [isDB |-> TRUE, Addr |-> "localhost:5432", User |-> "postgres", Database |-> "app"]
PgTx == [isDB |-> FALSE, Addr |-> "", User |-> "", Database |-> ""]

\* the event of a query: evt.Query (whether it has an Operation method, what that
\* returns, what its two renderings return), evt.DB, evt.Err and evt.Result
Event(hasOp, op, formatted, unformatted, db, err, result) ==
    [hasOp |-> hasOp, op |-> op, formatted |-> formatted, unformatted |-> unformatted,
     db |-> db, err |-> err, result |-> result]

----------------------------------------------------------------------------
(* The call stack (runtime.Callers, runtime.CallersFrames) *)

\* "github.com/go-pg/pg", the namespace AfterQuery passes to funcFileLine
PgPkg ==
    <<"g", "i", "t", "h", "u", "b", ".", "c", "o", "m", "/",
      "g", "o", "-", "p", "g", "/", "p", "g">>

Frame(fn, file, line) == [Function |-> fn, File |-> file, Line |-> line]
\* the zero runtime.Frame
ZeroFrame == Frame(<<>>, "", 0)

\* the frames of the hook itself, innermost first: what runtime.Callers skips
HookFrames ==
    <<Frame(<<"r", "u", "n", "t", "i", "m", "e", ".", "C", "a", "l", "l", "e", "r", "s">>, "extern.go", 1),
      Frame(<<"p", "g", "e", "x", "t", ".", "f", "u", "n", "c", "F", "i", "l", "e", "L", "i", "n", "e">>, "otel.go", 123),
      Frame(<<"p", "g", "e", "x", "t", ".", "A", "f", "t", "e", "r", "Q", "u", "e", "r", "y">>, "otel.go", 78)>>

\* runtime.Callers(skip, pcs[:]) with len(pcs) = size, then runtime.CallersFrames:
\* the frames of the goroutine's stack from the skip-th on, at most size of them.
\* callers is the stack above AfterQuery, innermost first.
Callers(skp, size, callers) ==
    LET full == HookFrames \o callers
    IN  SubSeq(full, skp + 1, Min(Len(full), skp + size))

\* ff.Next() on its k-th call: the k-th frame (the zero Frame once all were
\* returned), and whether a further call will return a valid frame
FramesNext(ff, k) ==
    [f |-> IF k <= Len(ff) THEN ff[k] ELSE ZeroFrame, more |-> k < Len(ff)]

----------------------------------------------------------------------------
(* funcFileLine *)

RECURSIVE walk(_, _, _, _)
\* the loop of funcFileLine from its k-th pass on; cur is (fn, file, line) so far
walk(pkg, ff, k, cur) ==
    LET n == FramesNext(ff, k)
    IN  IF ~n.more THEN cur
        ELSE IF ~Contains(n.f.Function, pkg) THEN n.f
        ELSE walk(pkg, ff, k + 1, n.f)

\* fn = fn[ind+1:] when fn holds a '/'
lastSegment(fn) ==
    LET ind == LastIndexByte(fn, "/")
    IN  IF ind # -1 THEN SubSeq(fn, ind + 2, Len(fn)) ELSE fn

\* funcFileLine(pkg), on a goroutine whose stack above AfterQuery is callers
funcFileLine(pkg, callers) ==
    LET ff == Callers(skip, depth, callers)
        at == walk(pkg, ff, 1, ZeroFrame)
    IN  Frame(lastSegment(at.Function), at.File, at.Line)

----------------------------------------------------------------------------
(* OpenTelemetryHook.AfterQuery, step by step *)

\* a guard that looks only for a span in the context, not at whether it records
beforeSkipsWithoutSpan(ctx) == SpanFromContext(ctx) = NoSpan

\* the guard of BeforeQuery
beforeSkips(ctx) == ~IsRecording(SpanFromContext(ctx))

\* the guard of AfterQuery
afterSkips(ctx) == ~IsRecording(SpanFromContext(ctx))

\* the deferred End left out
deferredNothing(sp) == sp

\* defer span.End(): what every return after the guard does to the span
deferred(sp) == End(sp)

\* operation: the query's Operation() when it has that method, else the zero value
operation(evt) == IF evt.hasOp THEN evt.op ELSE EmptyOp

\* a rendering whose error is dropped
renderDroppingErr(evt, op) ==
    IF op = InsertOp
    THEN [call |-> "UnformattedQuery", b |-> evt.unformatted.b, err |-> Nil]
    ELSE [call |-> "FormattedQuery", b |-> evt.formatted.b, err |-> Nil]

\* a rendering that is the formatted one for every operation
renderFormattedOnly(evt, op) ==
    [call |-> "FormattedQuery", b |-> evt.formatted.b, err |-> evt.formatted.err]

\* the rendering of the query: which method is called, and what it returns
render(evt, op) ==
    IF op = InsertOp
    THEN [call |-> "UnformattedQuery", b |-> evt.unformatted.b, err |-> evt.unformatted.err]
    ELSE [call |-> "FormattedQuery", b |-> evt.formatted.b, err |-> evt.formatted.err]

\* a naming without the cap on the index of the first space
nameSpanUncapped(sp, op, query) ==
    IF op # EmptyOp THEN SetName(sp, op)
    ELSE LET idx == IndexByte(query, " ")
         IN  IF idx >= 0 THEN SetName(sp, TrimSpace(Prefix(query, idx))) ELSE sp

\* the naming of the span
nameSpan(sp, op, query) ==
    IF op # EmptyOp THEN SetName(sp, op)
    ELSE LET idx == IndexByte(query, " ")
         IN  IF idx >= 0
             THEN SetName(sp, TrimSpace(Prefix(query, IF idx > nameLimit THEN nameLimit ELSE idx)))
             ELSE sp

\* a truncation that keeps one byte too many
truncateOffByOne(query) ==
    IF Len(query) > queryLimit + 1 THEN Prefix(query, queryLimit + 1) ELSE query

\* the truncation of the query text
truncate(query) ==
    IF Len(query) > queryLimit THEN Prefix(query, queryLimit) ELSE query

\* the attributes every span gets
baseAttrs(query, loc) ==
    << <<"db.system", "postgres">>,
       <<"db.statement", query>>,
       <<"frame.func", loc.Function>>,
       <<"frame.file", loc.File>>,
       <<"frame.line", loc.Line>> >>

\* the attributes of the connection, when evt.DB is a *pg.DB
dbAttrs(db) ==
    IF db.isDB
    THEN << <<"db.connection_string", db.Addr>>,
            <<"db.user", db.User>>,
            <<"db.name", db.Database>> >>
    ELSE <<>>

\* a row count without the fallback to the rows returned
numRowAffectedOnly(result) == result.affected

\* numRow
numRow(result) ==
    IF result.affected = 0 THEN result.returned ELSE result.affected

\* an outcome that takes only the no-rows error as expected
outcomeNoRowsOnly(sp, evt) ==
    IF evt.err # Nil
    THEN IF evt.err = ErrNoRows
         THEN [span |-> SetStatus(sp, NotFound), attrs |-> <<>>]
         ELSE [span |-> RecordError(SetStatus(sp, Internal), evt.err), attrs |-> <<>>]
    ELSE IF evt.result.present
         THEN [span |-> sp, attrs |-> << <<"db.rows_affected", (IF evt.result.affected = 0 THEN evt.result.returned ELSE evt.result.affected)>> >>]
         ELSE [span |-> sp, attrs |-> <<>>]

\* the status and error of the span, and the row-count attribute
outcome(sp, evt) ==
    IF evt.err # Nil
    THEN IF evt.err \in {ErrNoRows, ErrMultiRows}
         THEN [span |-> SetStatus(sp, NotFound), attrs |-> <<>>]
         ELSE [span |-> RecordError(SetStatus(sp, Internal), evt.err), attrs |-> <<>>]
    ELSE IF evt.result.present
         THEN [span |-> sp, attrs |-> << <<"db.rows_affected", numRow(evt.result)>> >>]
         ELSE [span |-> sp, attrs |-> <<>>]

\* AfterQuery past its guard, on the recording span sp: the span as it leaves
\* it, the error returned, and the rendering calls made on the event
afterQuery(sp, evt, callers) ==
    LET op == operation(evt)
        r  == render(evt, op)
    IN  IF r.err # Nil
        THEN [span |-> deferred(sp), ret |-> r.err, calls |-> <<r.call>>]
        ELSE LET named == nameSpan(sp, op, r.b)
                 query == truncate(r.b)
                 loc   == funcFileLine(PgPkg, callers)
                 out   == outcome(named, evt)
                 attrs == baseAttrs(query, loc) \o dbAttrs(evt.db) \o out.attrs
             IN  [span |-> deferred(SetAttributes(out.span, attrs)),
                  ret |-> Nil, calls |-> <<r.call>>]

----------------------------------------------------------------------------
(* The inputs the model draws: query texts, events, stacks *)

\* query texts no longer than the naming cap needs: empty, with and without a
\* space, with white space around the first word, and with the first space
\* just before, at and after index nameLimit
ShortTexts ==
    { <<>>,
      <<"B", "E", "G", "I", "N">>,
      <<"S", "E", "L", " ", "1">>,
      <<"\t", "S", "E", "L", "\n", " ", "1">>,
      <<" ", "S", "E", "L">>,
      Rep("a", nameLimit - 1) \o <<" ", "b">>,
      Rep("a", nameLimit) \o <<" ", "b">>,
      Rep("a", nameLimit + 1) \o <<" ", "b">>,
      Rep("a", nameLimit - 1) \o <<"\t", "c", " ", "d">> }

\* query texts around the length queryLimit
LongTexts ==
    { Rep("x", queryLimit - 1),
      Rep("x", queryLimit),
      Rep("x", queryLimit + 1),
      <<"U", "P", " ">> \o Rep("y", queryLimit) }

ShortUnformatted == <<"I", "N", "S", " ", "?">>
LongUnformatted == <<"I", "N", "S", " ">> \o Rep("?", queryLimit)

\* what evt.Query is: without an Operation method, or with one and its value
QueryKinds == {<<FALSE, EmptyOp>>} \cup {<<TRUE, op>> : op \in QueryOps}

\* every outcome and connection, on short texts
CoreEvents ==
    { Event(k[1], k[2], f, u, db, err, res) :
        k \in QueryKinds,
        f \in {Rendered(t) : t \in ShortTexts} \cup {RenderFailed(ErrFormat)},
        u \in {Rendered(ShortUnformatted), RenderFailed(ErrUnformat)},
        db \in {PgDB, PgTx},
        err \in EventErrs,
        res \in Results }

\* long texts, on fewer outcomes
LongEvents ==
    { Event(k[1], k[2], Rendered(f), Rendered(u), PgDB, err, Result(0, 3)) :
        k \in QueryKinds,
        f \in LongTexts,
        u \in {ShortUnformatted, LongUnformatted},
        err \in {Nil, ErrOther} }

Events == CoreEvents \cup LongEvents

\* the event of a plain successful select
DefaultEvent ==
    Event(TRUE, SelectOp, Rendered(<<"S", "E", "L", " ", "1">>),
          Rendered(<<"S", "E", "L", " ", "?">>), PgDB, Nil, Result(0, 3))

\* the events of the lifecycle specification: each exit path of AfterQuery
LifecycleEvents ==
    { DefaultEvent,
      Event(TRUE, InsertOp, Rendered(<<"I", "N", "S", " ", "1">>),
            Rendered(ShortUnformatted), PgDB, Nil, Result(2, 0)),
      Event(TRUE, InsertOp, Rendered(<<"I", "N", "S", " ", "1">>),
            RenderFailed(ErrUnformat), PgDB, Nil, Result(2, 0)),
      Event(FALSE, EmptyOp, RenderFailed(ErrFormat),
            Rendered(ShortUnformatted), PgTx, ErrOther, NoResult),
      Event(FALSE, EmptyOp, Rendered(<<"S", "E", "L", " ", "1">>),
            Rendered(ShortUnformatted), PgTx, ErrNoRows, NoResult),
      Event(TRUE, EmptyOp, Rendered(<<"B", "E", "G", "I", "N">>),
            Rendered(ShortUnformatted), PgDB, ErrOther, NoResult) }

\* a frame of the library, of the application, and the frame every goroutine's
\* stack ends with; the line tells the frames of one stack apart
LibFrame(i) ==
    Frame(PgPkg \o <<"/", "v", "1", "0", ".", "Q">>, "pg/db.go", i)
AppFrame(i) ==
    IF i % 2 = 0
    THEN Frame(<<"m", "a", "i", "n", ".", "r", "u", "n">>, "main.go", i)
    ELSE Frame(<<"x", ".", "i", "o", "/", "a", "p", "p", ".", "F">>, "app/f.go", i)
GoexitFrame(i) ==
    Frame(<<"r", "u", "n", "t", "i", "m", "e", ".", "g", "o", "e", "x", "i", "t">>, "asm.s", i)

\* the stack above AfterQuery, innermost first: n frames of the library, then m
\* of the application, then runtime.goexit
Stack(n, m) ==
    [i \in 1..(n + m + 1) |->
        IF i <= n THEN LibFrame(i)
        ELSE IF i <= n + m THEN AppFrame(i)
        ELSE GoexitFrame(i)]

\* AfterQuery is called by the library or by the application
Stacks ==
    {Stack(n, m) : n \in 0..MaxLibFrames, m \in 0..MaxAppFrames} \ {Stack(0, 0)}

\* the usual stack: a few frames of the library, called by the application
DefaultStack == Stack(3, 2)

----------------------------------------------------------------------------
(* The state machine *)

Queries == 1..NumQueries

Init ==
    /\ spans = (AppNotRecording :> NewSpan("app", NoSpan, <<"a", "p", "p">>, FALSE))
               @@ (AppRecording :> NewSpan("app", NoSpan, <<"a", "p", "p">>, TRUE))
    /\ q = [i \in Queries |->
              [pc |-> "init", ctx |-> NoSpan, ctxOut |-> NoSpan, beforeErr |-> Nil,
               evt |-> DefaultEvent, callers |-> <<>>, ret |-> Nil, calls |-> <<>>]]

\* tracer.Start(ctx, name): a new span, child of the span of ctx, in a new
\* context; whether it records is the sampler's decision
Start(ctx, name, recording) ==
    [spans |-> spans @@ (NextSpanID :> NewSpan("hook", SpanFromContext(ctx), name, recording)),
     ctx |-> NextSpanID]

\* h.BeforeQuery(ctx, evt) of query i
BeforeQuery(i, ctx) ==
    /\ q[i].pc = "init"
    /\ IF beforeSkips(ctx)
       THEN /\ spans' = spans
            /\ q' = [q EXCEPT ![i] = [@ EXCEPT !.pc = "before", !.ctx = ctx,
                                               !.ctxOut = ctx, !.beforeErr = Nil]]
       ELSE \E recording \in BOOLEAN :
              LET started == Start(ctx, <<>>, recording)
              IN  /\ spans' = started.spans
                  /\ q' = [q EXCEPT ![i] = [@ EXCEPT !.pc = "before", !.ctx = ctx,
                                                     !.ctxOut = started.ctx,
                                                     !.beforeErr = Nil]]

\* h.AfterQuery(ctx, evt) of query i, with the context its BeforeQuery returned,
\* on a goroutine whose stack above the call is callers
AfterQuery(i, evt, callers) ==
    /\ q[i].pc = "before"
    /\ LET ctx  == q[i].ctxOut
           span == SpanFromContext(ctx)
       IN  IF afterSkips(ctx)
           THEN /\ spans' = spans
                /\ q' = [q EXCEPT ![i] = [@ EXCEPT !.pc = "done", !.evt = evt,
                                                   !.callers = callers,
                                                   !.ret = Nil, !.calls = <<>>]]
           ELSE LET r == afterQuery(spans[span], evt, callers)
                IN  /\ spans' = [spans EXCEPT ![span] = r.span]
                    /\ q' = [q EXCEPT ![i] = [@ EXCEPT !.pc = "done", !.evt = evt,
                                                       !.callers = callers,
                                                       !.ret = r.ret, !.calls = r.calls]]

\* Queries of one database, their hook calls interleaved
Next ==
    \E i \in Queries :
        \/ \E ctx \in AmbientContexts : BeforeQuery(i, ctx)
        \/ \E evt \in LifecycleEvents : AfterQuery(i, evt, DefaultStack)

Spec == Init /\ [][Next]_vars

\* One query, over every event
NextEvent ==
    \/ \E ctx \in AmbientContexts : BeforeQuery(1, ctx)
    \/ \E evt \in Events : AfterQuery(1, evt, DefaultStack)

SpecEvent == Init /\ [][NextEvent]_vars

\* One query, over every stack
NextFrames ==
    \/ \E ctx \in AmbientContexts : BeforeQuery(1, ctx)
    \/ \E callers \in Stacks : AfterQuery(1, DefaultEvent, callers)

SpecFrames == Init /\ [][NextFrames]_vars

----------------------------------------------------------------------------
(* What the properties below speak about *)

\* query i's AfterQuery has returned
Done(i) == q[i].pc = "done"

\* query i's AfterQuery has returned and had passed its guard: the context it
\* received carried a recording span
Ran(i) == Done(i) /\ IsRecording(SpanFromContext(q[i].ctxOut))

\* query i's AfterQuery ran to its end: the query was rendered
Completed(i) == Ran(i) /\ q[i].ret = Nil

\* the span query i's AfterQuery worked on
SpanOf(i) == spans[q[i].ctxOut]

\* this step is the BeforeQuery call of query i
BeforeStep(i) == q[i].pc = "init" /\ q'[i].pc = "before"

\* this step is the AfterQuery call of query i
AfterStep(i) == q[i].pc = "before" /\ q'[i].pc = "done"

\* whether the span carries an attribute of this key, and its value
HasAttr(sp, key) == \E k \in 1..Len(sp.attributes) : sp.attributes[k][1] = key
AttrOf(sp, key) ==
    sp.attributes[CHOOSE k \in 1..Len(sp.attributes) : sp.attributes[k][1] = key][2]

\* the rendering of query i's event that an insert takes, and that the others take
IsInsert(evt) == evt.hasOp /\ evt.op = InsertOp
ChosenRender(evt) == IF IsInsert(evt) THEN evt.unformatted ELSE evt.formatted

----------------------------------------------------------------------------
(* C1 *)

\* C1: with a context whose span is not recording (or that carries no span),
\* BeforeQuery returns the same context and a nil error and starts no span, and
\* AfterQuery returns nil, renders nothing and leaves every span as it was: no
\* name, status, attribute, recorded error or End.
C1_NotRecordingIsNoOp ==
    [][\A i \in Queries :
          /\ (BeforeStep(i) /\ ~IsRecording(SpanFromContext(q'[i].ctx)))
                => /\ spans' = spans
                   /\ q'[i].ctxOut = q'[i].ctx
                   /\ q'[i].beforeErr = Nil
          /\ (AfterStep(i) /\ ~IsRecording(SpanFromContext(q[i].ctxOut)))
                => /\ spans' = spans
                   /\ q'[i].ret = Nil
                   /\ q'[i].calls = <<>>]_vars

\* both calls have returned for a context with a span that is not recording and
\* for a context without a span
C1_Witness ==
    /\ \E i \in Queries : Done(i) /\ q[i].ctx = AppNotRecording /\ q[i].ctxOut = AppNotRecording
    /\ \E i \in Queries : Done(i) /\ q[i].ctx = NoSpan /\ q[i].ctxOut = NoSpan

----------------------------------------------------------------------------
(* C2 *)

\* C2 as stated: every call of AfterQuery makes exactly one End call on the span
\* of its context, on every exit path.
C2_AlwaysOneEnd ==
    [][\A i \in Queries :
          (AfterStep(i) /\ q[i].ctxOut # NoSpan)
             => spans'[q[i].ctxOut].ends = spans[q[i].ctxOut].ends + 1]_vars

\* C2, amended: every call of AfterQuery with a context whose span is recording
\* makes exactly one End call on that span, which was open and is closed once
\* afterwards, on every exit path, the one where rendering fails included; no
\* other span is touched.
C2_OneEndWhenRecording ==
    [][\A i \in Queries :
          (AfterStep(i) /\ IsRecording(SpanFromContext(q[i].ctxOut)))
             => /\ spans[q[i].ctxOut].ends = 0
                /\ spans'[q[i].ctxOut].ends = 1
                /\ \A s \in DOMAIN spans : s # q[i].ctxOut => spans'[s] = spans[s]]_vars

\* an AfterQuery whose rendering failed has returned the error, the span closed once
C2_Witness ==
    \E i \in Queries : Ran(i) /\ q[i].ret = ErrUnformat /\ SpanOf(i).ends = 1

----------------------------------------------------------------------------
(* C3 *)

\* every query's pair of calls has returned (or not begun)
AllPaired == \A i \in Queries : q[i].pc \in {"init", "done"}

\* C3: once the pairs of calls have returned, the spans the hook closed are the
\* spans the hook started: each span BeforeQuery created was closed by its
\* AfterQuery, and nothing else was closed.
C3_ClosedEqualsStarted ==
    AllPaired =>
        {s \in DOMAIN spans : spans[s].ends > 0}
            = {s \in DOMAIN spans : spans[s].startedBy = "hook"}

----------------------------------------------------------------------------
(* C4 *)

\* C4: BeforeQuery returns a nil error; AfterQuery returns an error exactly when
\* the rendering it called failed, and then that rendering's error; the error
\* of the query itself (evt.Err) is never what it returns.
C4_OnlyRenderingErrors ==
    \A i \in Queries :
        /\ q[i].pc # "init" => q[i].beforeErr = Nil
        /\ Done(i) =>
              LET failed == /\ q[i].calls # <<>>
                            /\ ChosenRender(q[i].evt).err # Nil
              IN  /\ q[i].ret # Nil <=> failed
                  /\ failed => q[i].ret = ChosenRender(q[i].evt).err
                  /\ q[i].ret \notin (EventErrs \ {Nil})

\* a query that failed, whose rendering failed too: the rendering error is returned
C4_Witness ==
    \E i \in Queries :
        /\ Ran(i)
        /\ q[i].evt.err = ErrOther
        /\ q[i].calls = <<"FormattedQuery">>
        /\ q[i].ret = ErrFormat

----------------------------------------------------------------------------
(* C5 *)

\* C5: after an AfterQuery that rendered the query on a recording span: the
\* no-rows and the multiple-rows error give status NotFound and no recorded
\* error; any other error gives status Internal and is recorded; no error
\* gives no status and no recorded error.
C5_ErrorClassification ==
    \A i \in Queries :
        Completed(i) =>
            LET err == q[i].evt.err
                sp  == SpanOf(i)
            IN  /\ err \in {ErrNoRows, ErrMultiRows}
                      => sp.status = NotFound /\ sp.errors = <<>>
                /\ (err # Nil /\ err \notin {ErrNoRows, ErrMultiRows})
                      => sp.status = Internal /\ sp.errors = <<err>>
                /\ err = Nil
                      => sp.status = StatusUnset /\ sp.errors = <<>>

\* the multiple-rows error classified as NotFound, nothing recorded
C5_Witness ==
    \E i \in Queries :
        /\ Completed(i)
        /\ q[i].evt.err = ErrMultiRows
        /\ SpanOf(i).status = NotFound
        /\ SpanOf(i).errors = <<>>

----------------------------------------------------------------------------
(* C6 *)

\* C6: on a recording span AfterQuery renders the query once: unformatted
\* exactly when the operation is insert, formatted for every other operation,
\* the empty one and a query without an operation included; the text of
\* db.statement is taken from that rendering.
C6_RenderingChoice ==
    \A i \in Queries :
        Ran(i) =>
            /\ q[i].calls = <<"UnformattedQuery">> <=> IsInsert(q[i].evt)
            /\ q[i].calls = <<"FormattedQuery">> <=> ~IsInsert(q[i].evt)
            /\ Completed(i) =>
                  LET stmt == AttrOf(SpanOf(i), "db.statement")
                  IN  /\ HasAttr(SpanOf(i), "db.statement")
                      /\ Len(stmt) <= Len(ChosenRender(q[i].evt).b)
                      /\ stmt = SubSeq(ChosenRender(q[i].evt).b, 1, Len(stmt))
                      /\ stmt = <<>> => ChosenRender(q[i].evt).b = <<>>

\* an insert whose statement is the unformatted text, not the formatted one
C6_Witness ==
    \E i \in Queries :
        /\ Completed(i)
        /\ IsInsert(q[i].evt)
        /\ q[i].calls = <<"UnformattedQuery">>
        /\ q[i].evt.formatted.err = Nil
        /\ q[i].evt.formatted.b # q[i].evt.unformatted.b
        /\ AttrOf(SpanOf(i), "db.statement") = q[i].evt.unformatted.b

----------------------------------------------------------------------------
(* C7 *)

\* the query reported an operation kind: it has the method, and the kind is
\* not the empty one
KindCaptured(evt) == evt.hasOp /\ evt.op # EmptyOp

\* t is s without the white space around it
IsTrimOf(t, s) ==
    \E lo \in 1..(Len(s) + 1) : \E hi \in 0..Len(s) :
        /\ t = SubSeq(s, lo, hi)
        /\ \A k \in 1..Len(s) : (k < lo \/ k > hi) => s[k] \in WhiteSpace
        /\ t # <<>> => (t[1] \notin WhiteSpace /\ t[Len(t)] \notin WhiteSpace)

\* C7: after an AfterQuery that rendered the query on a recording span: with an
\* operation kind captured the span's name is the kind, whatever the text; else,
\* with the first space of the text at index i, the name is the text's first
\* min(i, 20) bytes without the white space around them; else (no space) the
\* name was never set and is the one the span was started with.
C7_SpanNaming ==
    \A i \in Queries :
        Completed(i) =>
            LET evt    == q[i].evt
                text   == ChosenRender(evt).b
                sp     == SpanOf(i)
                spaces == {k \in 1..Len(text) : text[k] = " "}
                first  == (CHOOSE k \in spaces : \A j \in spaces : k <= j) - 1
            IN  IF KindCaptured(evt)
                THEN sp.name = evt.op /\ sp.nameCalls = 1
                ELSE IF spaces # {}
                THEN /\ IsTrimOf(sp.name, SubSeq(text, 1, Min(first, nameLimit)))
                     /\ sp.nameCalls = 1
                ELSE sp.name = <<>> /\ sp.nameCalls = 0

\* no kind, the first space beyond index 20: the name is the first 20 bytes
C7_Witness ==
    \E i \in Queries :
        /\ Completed(i)
        /\ ~KindCaptured(q[i].evt)
        /\ IndexByte(q[i].evt.formatted.b, " ") > nameLimit
        /\ SpanOf(i).name = SubSeq(q[i].evt.formatted.b, 1, nameLimit)

----------------------------------------------------------------------------
(* C8 *)

\* C8: db.rows_affected is attached exactly when AfterQuery ran to its end on an
\* event without an error and with a result; its value is the rows affected
\* when that is not zero, and the rows returned otherwise.
C8_RowsAffected ==
    \A i \in Queries :
        Done(i) =>
            LET evt == q[i].evt
            IN  /\ Completed(i) =>
                      /\ HasAttr(SpanOf(i), "db.rows_affected")
                            <=> (evt.err = Nil /\ evt.result.present)
                      /\ HasAttr(SpanOf(i), "db.rows_affected") =>
                            AttrOf(SpanOf(i), "db.rows_affected")
                               = IF evt.result.affected # 0
                                 THEN evt.result.affected
                                 ELSE evt.result.returned
                /\ ~Completed(i) =>
                      \A s \in DOMAIN spans : ~HasAttr(spans[s], "db.rows_affected")

\* no rows affected, three returned: three is attached
C8_Witness ==
    \E i \in Queries :
        /\ Completed(i)
        /\ q[i].evt.result = Result(0, 3)
        /\ AttrOf(SpanOf(i), "db.rows_affected") = 3

----------------------------------------------------------------------------
(* C9 *)

\* C9: after an AfterQuery that rendered the query on a recording span, with L
\* the length of the rendered text: db.statement is the text's prefix of length
\* min(L, 5000), so never longer than 5000, and the whole text when L <= 5000.
C9_Truncation ==
    \A i \in Queries :
        Completed(i) =>
            LET text == ChosenRender(q[i].evt).b
                stmt == AttrOf(SpanOf(i), "db.statement")
            IN  /\ Len(stmt) = Min(Len(text), queryLimit)
                /\ Len(stmt) <= queryLimit
                /\ \A k \in 1..Len(stmt) : stmt[k] = text[k]
                /\ Len(text) <= queryLimit => stmt = text

\* a text one byte longer than the limit, cut to the limit
C9_Witness ==
    \E i \in Queries :
        /\ Completed(i)
        /\ Len(ChosenRender(q[i].evt).b) = queryLimit + 1
        /\ Len(AttrOf(SpanOf(i), "db.statement")) = queryLimit

----------------------------------------------------------------------------
(* C10 *)

\* C10: the frame attributes are those of the first frame, walking from the
\* caller of AfterQuery outwards over the frames captured (at most 16), whose
\* function is not in the library's namespace, its function cut to what
\* follows the last '/'; they are those of the outermost captured frame when
\* every captured frame is in the namespace.
C10_CallerResolution ==
    \A i \in Queries :
        Completed(i) =>
            LET captured == SubSeq(q[i].callers, 1, Min(Len(q[i].callers), depth))
                outside  == {k \in 1..Len(captured) : ~Contains(captured[k].Function, PgPkg)}
                at       == IF outside = {} THEN Len(captured)
                            ELSE CHOOSE k \in outside : \A j \in outside : k <= j
                fn       == captured[at].Function
                slashes  == {k \in 1..Len(fn) : fn[k] = "/"}
                cut      == IF slashes = {} THEN 0
                            ELSE CHOOSE k \in slashes : \A j \in slashes : k >= j
            IN  /\ AttrOf(SpanOf(i), "frame.func") = SubSeq(fn, cut + 1, Len(fn))
                /\ AttrOf(SpanOf(i), "frame.file") = captured[at].File
                /\ AttrOf(SpanOf(i), "frame.line") = captured[at].Line

====
